---- MODULE Spec2Model ----
(***************************************************************************)
(* Media forwarding pipeline of the relay bot (src/src/app.ts): the        *)
(* per-sender rate limiter applyDelay, the media-group buffer with its     *)
(* debounce timers, the flush routine sendMediaGroup and the four media    *)
(* handlers.  The event loop is single-threaded: every action below is one *)
(* synchronous run of code between two suspension points (an await on a    *)
(* timer or on an external call).  Time is the value of Date.now().        *)
(***************************************************************************)
EXTENDS Integers, Sequences, FiniteSets, TLC

(* ---------------------------------------------------------------------- *)
(* Program constants                                                       *)
(* ---------------------------------------------------------------------- *)

\* const SEND_DELAY_MS = parseInt(process.env.SEND_DELAY_MS || "3000", 10)
SEND_DELAY_MS == 3000

\* the default the README states: "Rate limiting is set to 500ms by default"
README_DELAY_MS == 500

\* the "+ 1000" and the "4000" of Math.max(SEND_DELAY_MS + 1000, 4000)
FLUSH_MARGIN_MS == 1000
FLUSH_FLOOR_MS == 4000

(* ---------------------------------------------------------------------- *)
(* Bounds of the model                                                     *)
(* ---------------------------------------------------------------------- *)

\* the clock advances in steps of Tick milliseconds
Tick == 1000
\* the clock stops advancing once it has reached MaxTime
MaxTime == 9000
\* number of media messages the transport delivers (Spec, SpecPhoto)
MaxMixed == 2
\* number of media messages the transport delivers in the longer runs of one
\* sender (SpecAlbum)
MaxEvents == 3

Max(a, b) == IF a >= b THEN a ELSE b

\* Math.max(SEND_DELAY_MS + 1000, 4000): the quiet period of a group timer
FlushDelay == Max(SEND_DELAY_MS + FLUSH_MARGIN_MS, FLUSH_FLOOR_MS)

(* ---------------------------------------------------------------------- *)
(* The environment: users, the directory, messages, transport errors       *)
(* ---------------------------------------------------------------------- *)

\* two registered senders (the two entries of DEFAULT_DATA) and a user
\* that has no entry in the directory
Users == {"u1", "u2", "u3"}

\* DEFAULT_DATA: userId -> targetId
DEFAULT_DATA == [u \in {"u1", "u2"} |-> IF u = "u1" THEN "t1" ELSE "t2"]

\* the chats a sender can choose as its target
Targets == {"t1", "t2"}

\* ADMIN_ID (from the environment of the process): the super admin
ADMIN_ID == "u1"

\* the order of the entries in data.json and in the users collection
UserOrder == <<"u1", "u2", "u3">>

\* media_group_id values; the transport gives every album its own id, so a
\* key is only ever seen on messages of one sender
GroupKeys == {"g1", "g2", "g3"}
KeyOwner ==
  [g \in GroupKeys |-> IF g = "g1" THEN "u1" ELSE IF g = "g2" THEN "u2" ELSE "u3"]
NoGroup == "none"

Kinds == {"photo", "video", "document", "audio"}

\* the failures the transport reports: a TelegramError carries a description,
\* any other rejection (a network fault) only a message
ChatNotFoundPhrase == <<"chat", "not", "found">>
Errors ==
  { [class |-> "chat_not_found", hasDescription |-> TRUE,
     description |-> <<"Bad", "Request:", "chat", "not", "found">>,
     message |-> <<"400:", "Bad", "Request:", "chat", "not", "found">>],
    [class |-> "blocked", hasDescription |-> TRUE,
     description |-> <<"Forbidden:", "bot", "was", "blocked">>,
     message |-> <<"403:", "Forbidden:", "bot", "was", "blocked">>],
    [class |-> "network", hasDescription |-> FALSE,
     description |-> <<>>,
     message |-> <<"request", "failed,", "reason:", "ETIMEDOUT">>] }

(* ---------------------------------------------------------------------- *)
(* State                                                                   *)
(* ---------------------------------------------------------------------- *)

VARIABLES
  now,               \* Date.now()
  botEnabled,        \* let botEnabled = true
  data,              \* the user directory (data.json): userId -> targetId
  mongoReady,        \* let mongoReady = false
  userModel,         \* the users collection of MongoDB: userId -> targetId
  stored,            \* history: per user, the target of its last setTarget
  admins,            \* the users whose document has isAdmin: true
  commands,          \* suspended invocations of command handlers
  delivered,         \* per chat, the last status broadcast it received
  userLastSent,      \* Map<number, number>
  mediaGroupBuffer,  \* Map<string, any[]>
  groupTimeouts,     \* Map<string, NodeJS.Timeout>: key -> timer handle
  timers,            \* the armed (not fired, not cleared) setTimeout callbacks
  tasks,             \* suspended async invocations (handlers and flushes)
  nextMsg,           \* id of the next message the transport delivers
  calls,             \* history: external send calls, in initiation order
  replies,           \* history: the ctx.reply calls each invocation has made
  pushed,            \* history: grouped messages appended to a buffer
  flushes,           \* history: invocations of sendMediaGroup by a timer
  settled,           \* history: keys whose last flush invocation has ended
                     \*          and that got no item since
  lastCallAt         \* history: per sender, when its last external send call
                     \*          was initiated

vars == <<now, botEnabled, data, mongoReady, userModel, stored, admins,
          commands, delivered, userLastSent, mediaGroupBuffer, groupTimeouts,
          timers, tasks, nextMsg, calls, replies, pushed, flushes, settled,
          lastCallAt>>

\* the state of the user directory
directory == <<data, mongoReady, userModel, stored, admins>>

\* the command handlers in progress and what they have broadcast
control == <<commands, delivered>>

(* ---------------------------------------------------------------------- *)
(* Maps                                                                    *)
(* ---------------------------------------------------------------------- *)

EmptyMap == [k \in {} |-> 0]
MapHas(m, k) == k \in DOMAIN m
MapSet(m, k, v) == [x \in (DOMAIN m) \cup {k} |-> IF x = k THEN v ELSE m[x]]
MapDelete(m, k) == [x \in (DOMAIN m) \ {k} |-> m[x]]


(* ---------------------------------------------------------------------- *)
(* Pure helpers of the program                                             *)
(* ---------------------------------------------------------------------- *)

NoTarget == "null"

\* findTarget:
\*   if (mongoReady) return (await UserModel.findOne({userId}))?.targetId ?? null
\*   return loadData().find(u => u.userId === userId)?.targetId ?? null
findTarget(userId) ==
  IF mongoReady
  THEN IF MapHas(userModel, userId) THEN userModel[userId] ELSE NoTarget
  ELSE IF MapHas(data, userId) THEN data[userId] ELSE NoTarget

\* String.prototype.includes on a text given as its sequence of words
Includes(text, phrase) ==
  \E i \in 0..(Len(text) - Len(phrase)) :
    SubSeq(text, i + 1, i + Len(phrase)) = phrase

\* WaitTime that waits for the time elapsed instead of the remaining time
WaitTimeElapsed(userId) ==
  IF MapHas(userLastSent, userId) /\ userLastSent[userId] # 0
     /\ now - userLastSent[userId] < SEND_DELAY_MS
  THEN now - userLastSent[userId]
  ELSE 0

\* WaitTime that makes a sender without a timestamp wait a full interval
WaitTimeFirstWaits(userId) ==
  IF ~MapHas(userLastSent, userId) THEN SEND_DELAY_MS
  ELSE IF now - userLastSent[userId] < SEND_DELAY_MS
  THEN SEND_DELAY_MS - (now - userLastSent[userId])
  ELSE 0

\* WaitTime of a rate limiter shared by all senders: it reads the latest
\* timestamp of any sender
WaitTimeGlobal(userId) ==
  LET stamps == {userLastSent[u] : u \in DOMAIN userLastSent}
      last == IF stamps = {} THEN 0
              ELSE CHOOSE x \in stamps : \A y \in stamps : y <= x
  IN IF last # 0 /\ now - last < SEND_DELAY_MS
     THEN SEND_DELAY_MS - (now - last)
     ELSE 0

\* applyDelay up to its await: the time to wait, 0 when it does not suspend.
\*   const lastSent = userLastSent.get(userId);
\*   if (lastSent) { const elapsed = Date.now() - lastSent;
\*                   if (elapsed < SEND_DELAY_MS) waitTime = SEND_DELAY_MS - elapsed }
WaitTime(userId) ==
  IF MapHas(userLastSent, userId) /\ userLastSent[userId] # 0
     /\ now - userLastSent[userId] < SEND_DELAY_MS
  THEN SEND_DELAY_MS - (now - userLastSent[userId])
  ELSE 0

\* MediaItems that keeps the first buffered message only
MediaItemsFirstOnly(messages) ==
  IF messages = <<>> THEN <<>>
  ELSE IF Head(messages).kind \in {"photo", "video"}
  THEN <<[type |-> Head(messages).kind, media |-> Head(messages).id]>>
  ELSE <<>>

\* the loop of sendMediaGroup that projects the buffered messages:
\* photos and videos become {type, media}, anything else is skipped
RECURSIVE MediaItems(_)
MediaItems(messages) ==
  IF messages = <<>> THEN <<>>
  ELSE LET m == Head(messages)
           rest == MediaItems(Tail(messages))
       IN IF m.kind \in {"photo", "video"}
          THEN <<[type |-> m.kind, media |-> m.id]>> \o rest
          ELSE rest

\* CatchReplies with the generic reply made only when the failure carries a
\* description
CatchRepliesSilent(e) ==
  IF e.hasDescription /\ Includes(e.description, ChatNotFoundPhrase)
  THEN << [text |-> "must_start", detail |-> <<>>] >>
  ELSE IF e.hasDescription
  THEN << [text |-> "generic", detail |-> e.description] >>
  ELSE <<>>

\* CatchReplies with the remediation chosen for every failure that carries a
\* description
CatchRepliesAnyDescription(e) ==
  IF e.hasDescription
  THEN << [text |-> "must_start", detail |-> <<>>] >>
  ELSE << [text |-> "generic", detail |-> <<"Unknown", "error">>] >>

\* the catch block of a failed send: the replies it makes to ctx.
\*   if (e?.description?.includes("chat not found")) reply(remediation)
\*   else reply("Failed to forward ... Error: " + (e?.description || "Unknown error"))
CatchReplies(e) ==
  IF e.hasDescription /\ Includes(e.description, ChatNotFoundPhrase)
  THEN << [text |-> "must_start", detail |-> <<>>] >>
  ELSE << [text |-> "generic",
           detail |-> IF e.hasDescription /\ e.description # <<>>
                      THEN e.description ELSE <<"Unknown", "error">>] >>

\* The external-send method each kind of task calls
SendOp(kind) ==
  CASE kind = "photo" -> "sendPhoto"
    [] kind = "video" -> "sendVideo"
    [] kind = "document" -> "sendDocument"
    [] kind = "audio" -> "sendAudio"
    [] OTHER -> "sendMediaGroup"

(* ---------------------------------------------------------------------- *)
(* Initial state                                                           *)
(* ---------------------------------------------------------------------- *)

Init ==
  /\ now = Tick
  /\ botEnabled = TRUE
  /\ data = DEFAULT_DATA
  /\ mongoReady = FALSE
  /\ userModel = EmptyMap
  /\ stored = EmptyMap
  /\ admins = {}
  /\ commands = {}
  /\ delivered = EmptyMap
  /\ userLastSent = EmptyMap
  /\ mediaGroupBuffer = EmptyMap
  /\ groupTimeouts = EmptyMap
  /\ timers = {}
  /\ tasks = {}
  /\ nextMsg = 1
  /\ calls = <<>>
  /\ replies = EmptyMap
  /\ pushed = <<>>
  /\ flushes = <<>>
  /\ settled = {}
  /\ lastCallAt = EmptyMap


(* ---------------------------------------------------------------------- *)
(* Building blocks of the handlers                                         *)
(* ---------------------------------------------------------------------- *)

\* one external send call, as the transport sees it; seen is the number of
\* grouped arrivals that had happened when the call was initiated
CallOf(tk) ==
  [by |-> tk.id, op |-> tk.op, userId |-> tk.userId, target |-> tk.target,
   groupId |-> tk.groupId, items |-> tk.items,
   seen |-> Len(pushed), outcome |-> "pending"]

\* `await applyDelay(userId); await ctx.telegram.send...(target, ...)` run by
\* a new invocation tk up to its first suspension: either applyDelay suspends
\* in setTimeout(r, waitTime), or it records Date.now() and the send is
\* initiated
StartSend(tk) ==
  LET w == WaitTime(tk.userId) IN
  IF w > 0
  THEN /\ tasks' = tasks \cup {[tk EXCEPT !.pc = "delay", !.wake = now + w]}
       /\ UNCHANGED <<userLastSent, calls, lastCallAt>>
  ELSE /\ userLastSent' = MapSet(userLastSent, tk.userId, now)
       /\ calls' = Append(calls, CallOf(tk))
       /\ lastCallAt' = MapSet(lastCallAt, tk.userId, now)
       /\ tasks' = tasks \cup {[tk EXCEPT !.pc = "send"]}

\* ClearTimeout that clears the timers of every key
ClearTimeoutAll(groupId) == {t \in timers : FALSE}

\* clearTimeout(groupTimeouts.get(groupId)) when groupTimeouts.has(groupId):
\* the armed timers that remain
ClearTimeout(groupId) ==
  IF MapHas(groupTimeouts, groupId)
  THEN {t \in timers : t.id # groupTimeouts[groupId]}
  ELSE timers

\* setTimeout(() => sendMediaGroup(ctx, groupId, target, userId), FlushDelay)
NewTimer(msg, groupId, target) ==
  [id |-> msg.id, groupId |-> groupId, target |-> target, userId |-> msg.from,
   deadline |-> now + FlushDelay]

\* the buffer after `if (!has) set(groupId, []); get(groupId).push(message)`
BufferPush(groupId, msg) ==
  MapSet(mediaGroupBuffer, groupId,
         (IF MapHas(mediaGroupBuffer, groupId)
          THEN mediaGroupBuffer[groupId] ELSE <<>>) \o <<msg>>)

\* the `if (message.media_group_id) { ... return; }` branch of the photo and
\* video handlers
GroupBranch(msg, groupId, target) ==
  /\ mediaGroupBuffer' = BufferPush(groupId, msg)
  /\ timers' = ClearTimeout(groupId) \cup {NewTimer(msg, groupId, target)}
  /\ groupTimeouts' = MapSet(groupTimeouts, groupId, msg.id)
  /\ pushed' = Append(pushed,
                 [id |-> msg.id, key |-> groupId, at |-> now, target |-> target,
                  first |-> ~MapHas(mediaGroupBuffer, groupId),
                  late |-> \E tk \in tasks :
                              tk.kind = "flush" /\ tk.groupId = groupId])
  /\ settled' = settled \ {groupId}
  /\ UNCHANGED <<userLastSent, tasks, calls, replies, flushes, lastCallAt>>

\* a handler that answers with ctx.reply(text) and returns
ReplyAndReturn(msg, text) ==
  /\ replies' = MapSet(replies, msg.id,
                       << [to |-> msg.from, text |-> text, detail |-> <<>>] >>)
  /\ UNCHANGED <<userLastSent, mediaGroupBuffer, groupTimeouts, timers, tasks,
                 calls, pushed, flushes, settled, lastCallAt>>

\* the try block of a handler for a message that is not part of a group
SingleSend(msg, target) ==
  /\ StartSend([id |-> msg.id, kind |-> "single", op |-> SendOp(msg.kind),
                userId |-> msg.from, target |-> target, groupId |-> NoGroup,
                items |-> <<[type |-> msg.kind, media |-> msg.id]>>,
                pc |-> "new", wake |-> 0])
  /\ UNCHANGED <<mediaGroupBuffer, groupTimeouts, timers, replies, pushed,
                 flushes, settled>>

\* MediaHandler without the check of the target
MediaHandlerUnchecked(msg, groupId) ==
  IF ~botEnabled THEN ReplyAndReturn(msg, "offline")
  ELSE IF groupId # NoGroup THEN GroupBranch(msg, groupId, findTarget(msg.from))
  ELSE SingleSend(msg, findTarget(msg.from))

\* bot.on("photo") and bot.on("video") from the botEnabled check on
MediaHandler(msg, groupId) ==
  IF ~botEnabled THEN ReplyAndReturn(msg, "offline")
  ELSE IF findTarget(msg.from) = NoTarget THEN ReplyAndReturn(msg, "no_target")
  ELSE IF groupId # NoGroup THEN GroupBranch(msg, groupId, findTarget(msg.from))
  ELSE SingleSend(msg, findTarget(msg.from))

\* bot.on("document") and bot.on("audio"): there is no group branch
PlainHandler(msg) ==
  IF ~botEnabled THEN ReplyAndReturn(msg, "offline")
  ELSE IF findTarget(msg.from) = NoTarget THEN ReplyAndReturn(msg, "no_target")
  ELSE SingleSend(msg, findTarget(msg.from))

\* the message the transport delivers next
Message(userId, kind) == [id |-> nextMsg, from |-> userId, kind |-> kind]

\* an album key only comes with messages of the sender of the album
Deliverable(userId, groupId) ==
  groupId \in GroupKeys => KeyOwner[groupId] = userId

(* ---------------------------------------------------------------------- *)
(* Actions: the media handlers                                             *)
(* ---------------------------------------------------------------------- *)

OnPhoto(userId, groupId) ==
  /\ Deliverable(userId, groupId)
  /\ nextMsg' = nextMsg + 1
  /\ MediaHandler(Message(userId, "photo"), groupId)
  /\ UNCHANGED <<now, botEnabled, directory, control>>

OnVideo(userId, groupId) ==
  /\ Deliverable(userId, groupId)
  /\ nextMsg' = nextMsg + 1
  /\ MediaHandler(Message(userId, "video"), groupId)
  /\ UNCHANGED <<now, botEnabled, directory, control>>

OnDocument(userId) ==
  /\ Deliverable(userId, NoGroup)
  /\ nextMsg' = nextMsg + 1
  /\ PlainHandler(Message(userId, "document"))
  /\ UNCHANGED <<now, botEnabled, directory, control>>

OnAudio(userId) ==
  /\ Deliverable(userId, NoGroup)
  /\ nextMsg' = nextMsg + 1
  /\ PlainHandler(Message(userId, "audio"))
  /\ UNCHANGED <<now, botEnabled, directory, control>>

\* the authorization of a power command with every user let through
AuthorizedAnyone(userId) == TRUE

\* `userId === ADMIN_ID || (await isAdmin(userId))`; isAdmin reads the
\* isAdmin flag of the user's document when mongoReady and is false otherwise
Authorized(userId) ==
  \/ userId = ADMIN_ID
  \/ mongoReady /\ userId \in admins

AddOnce(s, x) == IF \E i \in DOMAIN s : s[i] = x THEN s ELSE Append(s, x)

\* the loop of getAllUsers over the entries from..: userIds.add(entry.userId)
\* and userIds.add(entry.targetId) into a Set, which keeps insertion order
RECURSIVE CollectUsers(_, _, _, _)
CollectUsers(dir, docs, from, acc) ==
  IF from > Len(UserOrder) THEN acc
  ELSE LET u == UserOrder[from] IN
       CollectUsers(dir, docs, from + 1,
         IF u \notin docs THEN acc
         ELSE IF MapHas(dir, u) THEN AddOnce(AddOnce(acc, u), dir[u])
         ELSE AddOnce(acc, u))

\* getAllUsers(): the ids of the users and of their targets, from the users
\* collection when mongoReady and from data.json otherwise
getAllUsers ==
  IF mongoReady
  THEN CollectUsers(userModel, (DOMAIN userModel) \cup admins, 1, <<>>)
  ELSE CollectUsers(data, DOMAIN data, 1, <<>>)

\* a command handler that is suspended in an await
Command(kind, userId, arg) ==
  [id |-> nextMsg, kind |-> kind, userId |-> userId, arg |-> arg,
   before |-> findTarget(userId), pc |-> "new", rest |-> <<>>]

\* a command handler answers with ctx.reply(text)
Answer(id, userId, text) ==
  MapSet(replies, id,
         (IF MapHas(replies, id) THEN replies[id] ELSE <<>>)
           \o << [to |-> userId, text |-> text, detail |-> <<>>] >>)

\* bot.command("power_on") and bot.command("power_off") up to their first
\* suspension that other handlers can interleave with:
\*   if (!authorized) return ctx.reply("Unauthorized")
\*   if (botEnabled is already as wanted) return ctx.reply("already ...")
\*   botEnabled = wanted; await ctx.reply("Bot is now ...")
\* Buffers, timers and suspended invocations are not touched.
PowerCommand(userId, wanted, status) ==
  /\ nextMsg' = nextMsg + 1
  /\ IF ~Authorized(userId)
     THEN /\ replies' = Answer(nextMsg, userId, "unauthorized")
          /\ UNCHANGED <<botEnabled, commands>>
     ELSE IF botEnabled = wanted
     THEN /\ replies' = Answer(nextMsg, userId, "already")
          /\ UNCHANGED <<botEnabled, commands>>
     ELSE /\ botEnabled' = wanted
          /\ replies' = Answer(nextMsg, userId, status)
          /\ commands' = commands \cup
               {[Command("power", userId, status) EXCEPT !.pc = "reply"]}
  /\ UNCHANGED <<now, directory, delivered, userLastSent, mediaGroupBuffer,
                 groupTimeouts, timers, tasks, calls, pushed, flushes,
                 settled, lastCallAt>>

\* bot.command("power_off")
OnPowerOff(userId) == PowerCommand(userId, FALSE, "OFFLINE")

\* bot.command("power_on")
OnPowerOn(userId) == PowerCommand(userId, TRUE, "ONLINE")

\* bot.command("promote"): only ADMIN_ID, only when mongoReady;
\* UserModel.updateOne({userId: target}, {$set: {isAdmin: true}}, {upsert})
OnPromote(userId, targetUserId) ==
  /\ nextMsg' = nextMsg + 1
  /\ IF userId # ADMIN_ID
     THEN /\ replies' = Answer(nextMsg, userId, "unauthorized")
          /\ UNCHANGED admins
     ELSE IF ~mongoReady
     THEN /\ replies' = Answer(nextMsg, userId, "no_mongo")
          /\ UNCHANGED admins
     ELSE /\ admins' = admins \cup {targetUserId}
          /\ replies' = Answer(nextMsg, userId, "promoted")
  /\ UNCHANGED <<now, botEnabled, data, mongoReady, userModel, stored,
                 control, userLastSent, mediaGroupBuffer, groupTimeouts,
                 timers, tasks, calls, pushed, flushes, settled, lastCallAt>>

\* the status reply of a power command resolves: notifyAllUsers(message)
\* reads getAllUsers() and starts its loop with the first sendMessage
PowerReplyOk(c) ==
  /\ c \in commands /\ c.kind = "power" /\ c.pc = "reply"
  /\ commands' = (commands \ {c}) \cup
       (IF getAllUsers = <<>> THEN {}
        ELSE {[c EXCEPT !.pc = "notify", !.rest = getAllUsers]})
  /\ UNCHANGED <<now, botEnabled, directory, delivered, userLastSent,
                 mediaGroupBuffer, groupTimeouts, timers, tasks, nextMsg,
                 calls, replies, pushed, flushes, settled, lastCallAt>>

\* the status reply of a power command rejects: the handler ends with the
\* rejection, notifyAllUsers is not called
PowerReplyFail(c) ==
  /\ c \in commands /\ c.kind = "power" /\ c.pc = "reply"
  /\ commands' = commands \ {c}
  /\ UNCHANGED <<now, botEnabled, directory, delivered, userLastSent,
                 mediaGroupBuffer, groupTimeouts, timers, tasks, nextMsg,
                 calls, replies, pushed, flushes, settled, lastCallAt>>

\* the loop of notifyAllUsers goes on to the next user, or ends
NotifyNext(c) ==
  commands' = (commands \ {c}) \cup
    (IF Tail(c.rest) = <<>> THEN {} ELSE {[c EXCEPT !.rest = Tail(c.rest)]})

\* the sendMessage of notifyAllUsers resolves: the user has the message
NotifyOk(c) ==
  /\ c \in commands /\ c.kind = "power" /\ c.pc = "notify"
  /\ delivered' = MapSet(delivered, Head(c.rest), c.arg)
  /\ NotifyNext(c)
  /\ UNCHANGED <<now, botEnabled, directory, userLastSent, mediaGroupBuffer,
                 groupTimeouts, timers, tasks, nextMsg, calls, replies,
                 pushed, flushes, settled, lastCallAt>>

\* the sendMessage of notifyAllUsers rejects: caught and logged
NotifyFail(c) ==
  /\ c \in commands /\ c.kind = "power" /\ c.pc = "notify"
  /\ NotifyNext(c)
  /\ UNCHANGED <<now, botEnabled, directory, delivered, userLastSent,
                 mediaGroupBuffer, groupTimeouts, timers, tasks, nextMsg,
                 calls, replies, pushed, flushes, settled, lastCallAt>>

\* setTarget(userId, targetId)
setTarget(userId, targetId) ==
  /\ IF mongoReady
     THEN \* UserModel.updateOne({userId}, {$set: {targetId}}, {upsert: true})
          /\ userModel' = MapSet(userModel, userId, targetId)
          /\ UNCHANGED data
     ELSE \* loadData(), update or push the entry, saveData(data)
          /\ data' = MapSet(data, userId, targetId)
          /\ UNCHANGED userModel
  /\ stored' = MapSet(stored, userId, targetId)
  /\ UNCHANGED <<mongoReady, admins>>

\* bot.command("set_target") and bot.command("change_target") with an id, and
\* the set/change target buttons, from the moment getChat has resolved:
\* setTarget(userId, targetId) rewrites the sender's entry of the directory
\* (or adds one)
OnSetTarget(userId, targetId) ==
  /\ userId # targetId
  /\ setTarget(userId, targetId)
  /\ UNCHANGED <<now, botEnabled, control, userLastSent, mediaGroupBuffer,
                 groupTimeouts, timers, tasks, nextMsg, calls, replies,
                 pushed, flushes, settled, lastCallAt>>

\* the test for one's own id that never finds it
IsSelfNever(userId, targetId) == FALSE

\* if (userId === targetId)
IsSelf(userId, targetId) == userId = targetId

\* /set_target <id>, /change_target <id> and the target buttons up to their
\* first suspension:
\*   if (userId === targetId) return ctx.reply("You can't set yourself ...")
\*   try { const targetInfo = await bot.telegram.getChat(targetId); ...
TargetCommand(kind, userId, targetId) ==
  /\ nextMsg' = nextMsg + 1
  /\ IF IsSelf(userId, targetId)
     THEN /\ replies' = Answer(nextMsg, userId, "self")
          /\ UNCHANGED commands
     ELSE /\ commands' = commands \cup
               {[Command(kind, userId, targetId) EXCEPT !.pc = "getChat"]}
          /\ UNCHANGED replies
  /\ UNCHANGED <<now, botEnabled, directory, delivered, userLastSent,
                 mediaGroupBuffer, groupTimeouts, timers, tasks, calls,
                 pushed, flushes, settled, lastCallAt>>

\* bot.command("set_target") with an id
OnSetTargetCommand(userId, targetId) ==
  TargetCommand("set_target", userId, targetId)

\* bot.command("change_target") with an id
OnChangeTargetCommand(userId, targetId) ==
  TargetCommand("change_target", userId, targetId)

\* bot.action(/^(set|change)_target_(\d+)$/)
OnTargetButton(userId, targetId) ==
  TargetCommand("button", userId, targetId)

\* what the catch block of a target command answers
CatchAnswer(c) == IF c.kind = "button" THEN "try_later" ELSE "not_found"

\* getChat resolves: `await setTarget(userId, targetId)`, then the success
\* answer is sent and awaited
GetChatOk(c) ==
  /\ c \in commands /\ c.pc = "getChat"
  /\ setTarget(c.userId, c.arg)
  /\ replies' = Answer(c.id, c.userId, "success")
  /\ commands' = (commands \ {c}) \cup {[c EXCEPT !.pc = "answer"]}
  /\ UNCHANGED <<now, botEnabled, delivered, userLastSent, mediaGroupBuffer,
                 groupTimeouts, timers, tasks, nextMsg, calls, pushed,
                 flushes, settled, lastCallAt>>

\* getChat rejects: the catch block answers and the handler returns
GetChatFail(c) ==
  /\ c \in commands /\ c.pc = "getChat"
  /\ replies' = Answer(c.id, c.userId, CatchAnswer(c))
  /\ commands' = commands \ {c}
  /\ UNCHANGED <<now, botEnabled, directory, delivered, userLastSent,
                 mediaGroupBuffer, groupTimeouts, timers, tasks, nextMsg,
                 calls, pushed, flushes, settled, lastCallAt>>

\* the success answer resolves: the handler returns
AnswerOk(c) ==
  /\ c \in commands /\ c.pc = "answer"
  /\ commands' = commands \ {c}
  /\ UNCHANGED <<now, botEnabled, directory, delivered, userLastSent,
                 mediaGroupBuffer, groupTimeouts, timers, tasks, nextMsg,
                 calls, replies, pushed, flushes, settled, lastCallAt>>

\* the success answer rejects inside the try block: the catch block answers
\* and the handler returns
AnswerFail(c) ==
  /\ c \in commands /\ c.pc = "answer"
  /\ replies' = Answer(c.id, c.userId, CatchAnswer(c))
  /\ commands' = commands \ {c}
  /\ UNCHANGED <<now, botEnabled, directory, delivered, userLastSent,
                 mediaGroupBuffer, groupTimeouts, timers, tasks, nextMsg,
                 calls, pushed, flushes, settled, lastCallAt>>

\* connectMongo(), started at module load and not awaited, after its
\* `await mongoose.connect(MONGO_URI)` has resolved: mongoReady = true
ConnectMongoResolves ==
  /\ ~mongoReady
  /\ mongoReady' = TRUE
  /\ UNCHANGED <<now, botEnabled, data, userModel, stored, admins, control,
                 userLastSent, mediaGroupBuffer, groupTimeouts, timers, tasks, nextMsg,
                 calls, replies, pushed, flushes, settled, lastCallAt>>

(* ---------------------------------------------------------------------- *)
(* Actions: resumption of suspended invocations                            *)
(* ---------------------------------------------------------------------- *)

SetOutcome(id, outcome) ==
  [i \in DOMAIN calls |->
     IF calls[i].by = id THEN [calls[i] EXCEPT !.outcome = outcome]
     ELSE calls[i]]

\* the record of a flush invocation when it ends: how it ended and whether
\* it leaves its key in neither map
SetEnd(id, how, cleaned) ==
  [i \in DOMAIN flushes |->
     IF flushes[i].timer = id
     THEN [flushes[i] EXCEPT !.end = how, !.cleaned = cleaned]
     ELSE flushes[i]]

\* the "Clean up" lines that end sendMediaGroup:
\*   mediaGroupBuffer.delete(groupId); groupTimeouts.delete(groupId);
CleanUp(groupId) ==
  /\ mediaGroupBuffer' = MapDelete(mediaGroupBuffer, groupId)
  /\ groupTimeouts' = MapDelete(groupTimeouts, groupId)

\* an invocation runs to its end after its try/catch statement
Return(tk) ==
  /\ tasks' = tasks \ {tk}
  /\ IF tk.kind = "flush"
     THEN /\ CleanUp(tk.groupId)
          /\ flushes' = SetEnd(tk.id, "returned",
                               /\ ~MapHas(mediaGroupBuffer', tk.groupId)
                               /\ ~MapHas(groupTimeouts', tk.groupId))
          /\ settled' = settled \cup {tk.groupId}
     ELSE UNCHANGED <<mediaGroupBuffer, groupTimeouts, flushes, settled>>

\* DelayWake in which applyDelay raises when its wait ends: the invocation
\* ends without a send
DelayWakeThrows(tk) ==
  /\ tk \in tasks /\ tk.pc = "delay"
  /\ now >= tk.wake
  /\ tasks' = tasks \ {tk}
  /\ UNCHANGED <<now, botEnabled, directory, control, userLastSent, mediaGroupBuffer,
                 groupTimeouts, timers, nextMsg, calls, replies, pushed,
                 flushes, settled, lastCallAt>>

\* DelayWake that records the time the wait was due to end instead of
\* Date.now()
DelayWakeAtDeadline(tk) ==
  /\ tk \in tasks /\ tk.pc = "delay"
  /\ now >= tk.wake
  /\ userLastSent' = MapSet(userLastSent, tk.userId, tk.wake)
  /\ calls' = Append(calls, CallOf(tk))
  /\ lastCallAt' = MapSet(lastCallAt, tk.userId, now)
  /\ tasks' = (tasks \ {tk}) \cup {[tk EXCEPT !.pc = "send"]}
  /\ UNCHANGED <<now, botEnabled, directory, control, mediaGroupBuffer, groupTimeouts,
                 timers, nextMsg, replies, pushed, flushes, settled>>

\* the timer of applyDelay fires: userLastSent.set(userId, Date.now()),
\* applyDelay returns and the external send is initiated
DelayWake(tk) ==
  /\ tk \in tasks /\ tk.pc = "delay"
  /\ now >= tk.wake
  /\ userLastSent' = MapSet(userLastSent, tk.userId, now)
  /\ calls' = Append(calls, CallOf(tk))
  /\ lastCallAt' = MapSet(lastCallAt, tk.userId, now)
  /\ tasks' = (tasks \ {tk}) \cup {[tk EXCEPT !.pc = "send"]}
  /\ UNCHANGED <<now, botEnabled, directory, control, mediaGroupBuffer, groupTimeouts,
                 timers, nextMsg, replies, pushed, flushes, settled>>

\* SendOk that drops the sender's timestamp once its send has succeeded
SendOkForgets(tk) ==
  /\ tk \in tasks /\ tk.pc = "send"
  /\ calls' = SetOutcome(tk.id, "ok")
  /\ Return(tk)
  /\ userLastSent' = MapDelete(userLastSent, tk.userId)
  /\ UNCHANGED <<now, botEnabled, directory, control, timers, nextMsg,
                 replies, pushed, lastCallAt>>

\* the external send resolves
SendOk(tk) ==
  /\ tk \in tasks /\ tk.pc = "send"
  /\ calls' = SetOutcome(tk.id, "ok")
  /\ Return(tk)
  /\ UNCHANGED <<now, botEnabled, directory, control, userLastSent, timers, nextMsg,
                 replies, pushed, lastCallAt>>

\* SendFail with a second attempt: the rejected send is made again
SendFailRetry(tk, e) ==
  /\ tk \in tasks /\ tk.pc = "send"
  /\ calls' = Append(SetOutcome(tk.id, e.class), CallOf(tk))
  /\ UNCHANGED <<now, botEnabled, directory, control, userLastSent, mediaGroupBuffer,
                 groupTimeouts, timers, tasks, nextMsg, replies, pushed,
                 flushes, settled, lastCallAt>>

\* SendFail with a rollback of the rate limiter: the catch block forgets the
\* timestamp applyDelay recorded for the attempt
SendFailRollback(tk, e) ==
  /\ tk \in tasks /\ tk.pc = "send"
  /\ calls' = SetOutcome(tk.id, e.class)
  /\ userLastSent' = MapDelete(userLastSent, tk.userId)
  /\ replies' = MapSet(replies, tk.id,
       [i \in 1..Len(CatchReplies(e)) |->
          [to |-> tk.userId, text |-> CatchReplies(e)[i].text,
           detail |-> CatchReplies(e)[i].detail]])
  /\ tasks' = (tasks \ {tk}) \cup {[tk EXCEPT !.pc = "reply"]}
  /\ UNCHANGED <<now, botEnabled, directory, control, mediaGroupBuffer,
                 groupTimeouts, timers, nextMsg, pushed, flushes, settled,
                 lastCallAt>>

\* the external send rejects with e: the catch block replies and awaits the
\* reply
SendFail(tk, e) ==
  /\ tk \in tasks /\ tk.pc = "send"
  /\ calls' = SetOutcome(tk.id, e.class)
  /\ replies' = MapSet(replies, tk.id,
       [i \in 1..Len(CatchReplies(e)) |->
          [to |-> tk.userId, text |-> CatchReplies(e)[i].text,
           detail |-> CatchReplies(e)[i].detail]])
  /\ tasks' = (tasks \ {tk}) \cup {[tk EXCEPT !.pc = "reply"]}
  /\ UNCHANGED <<now, botEnabled, directory, control, userLastSent, mediaGroupBuffer,
                 groupTimeouts, timers, nextMsg, pushed, flushes, settled,
                 lastCallAt>>

\* the reply of the catch block resolves
ReplyOk(tk) ==
  /\ tk \in tasks /\ tk.pc = "reply"
  /\ Return(tk)
  /\ UNCHANGED <<now, botEnabled, directory, control, userLastSent, timers, nextMsg, calls,
                 replies, pushed, lastCallAt>>

\* the reply of the catch block rejects: the rejection leaves the catch block
\* and ends the invocation; whatever follows the try/catch is not run
ReplyFail(tk) ==
  /\ tk \in tasks /\ tk.pc = "reply"
  /\ tasks' = tasks \ {tk}
  /\ IF tk.kind = "flush"
     THEN /\ flushes' = SetEnd(tk.id, "threw",
                               /\ ~MapHas(mediaGroupBuffer, tk.groupId)
                               /\ ~MapHas(groupTimeouts, tk.groupId))
          /\ settled' = settled \cup {tk.groupId}
     ELSE UNCHANGED <<flushes, settled>>
  /\ UNCHANGED <<now, botEnabled, directory, control, userLastSent, mediaGroupBuffer,
                 groupTimeouts, timers, nextMsg, calls, replies, pushed,
                 lastCallAt>>

(* ---------------------------------------------------------------------- *)
(* Actions: the group timer and the clock                                  *)
(* ---------------------------------------------------------------------- *)

FlushRecord(t, ran) ==
  [timer |-> t.id, key |-> t.groupId, at |-> now, seen |-> Len(pushed),
   afterSettled |-> t.groupId \in settled, ran |-> ran,
   end |-> IF ran THEN "none" ELSE "returned", cleaned |-> FALSE]

\* a group timer fires and runs sendMediaGroup(ctx, groupId, target, userId)
\* up to its first suspension
TimerFire(t) ==
  /\ t \in timers
  /\ now >= t.deadline
  /\ timers' = timers \ {t}
  /\ IF ~MapHas(mediaGroupBuffer, t.groupId)
        \/ mediaGroupBuffer[t.groupId] = <<>>
     THEN \* if (!messages || messages.length === 0) return;
          /\ flushes' = Append(flushes, FlushRecord(t, FALSE))
          /\ settled' = settled \cup {t.groupId}
          /\ UNCHANGED <<userLastSent, mediaGroupBuffer, groupTimeouts,
                         tasks, calls, lastCallAt>>
     ELSE IF MediaItems(mediaGroupBuffer[t.groupId]) = <<>>
     THEN \* nothing to send: only the clean up runs
          /\ CleanUp(t.groupId)
          /\ flushes' = Append(flushes, [FlushRecord(t, FALSE) EXCEPT
                                            !.ran = TRUE, !.cleaned = TRUE])
          /\ settled' = settled \cup {t.groupId}
          /\ UNCHANGED <<userLastSent, tasks, calls, lastCallAt>>
     ELSE /\ StartSend([id |-> t.id, kind |-> "flush", op |-> "sendMediaGroup",
                        userId |-> t.userId, target |-> t.target,
                        groupId |-> t.groupId,
                        items |-> MediaItems(mediaGroupBuffer[t.groupId]),
                        pc |-> "new", wake |-> 0])
          /\ flushes' = Append(flushes, FlushRecord(t, TRUE))
          /\ UNCHANGED <<mediaGroupBuffer, groupTimeouts, settled>>
  /\ UNCHANGED <<now, botEnabled, directory, control, nextMsg, replies, pushed>>

\* time passes
Advance ==
  /\ now < MaxTime
  /\ now' = now + Tick
  /\ UNCHANGED <<botEnabled, directory, control, userLastSent, mediaGroupBuffer,
                 groupTimeouts, timers, tasks, nextMsg, calls, replies,
                 pushed, flushes, settled, lastCallAt>>

(* ---------------------------------------------------------------------- *)
(* Specifications                                                          *)
(* ---------------------------------------------------------------------- *)

\* the steps the event loop takes on its own
Resume ==
  \/ \E tk \in tasks : DelayWake(tk)
  \/ \E tk \in tasks : SendOk(tk)
  \/ \E tk \in tasks, e \in Errors : SendFail(tk, e)
  \/ \E tk \in tasks : ReplyOk(tk)
  \/ \E tk \in tasks : ReplyFail(tk)
  \/ Advance

\* every user, every handler, every group key
Next ==
  \/ \E u \in Users, g \in GroupKeys \cup {NoGroup} :
       nextMsg <= MaxMixed /\ OnPhoto(u, g)
  \/ \E u \in Users, g \in GroupKeys \cup {NoGroup} :
       nextMsg <= MaxMixed /\ OnVideo(u, g)
  \/ \E u \in Users : nextMsg <= MaxMixed /\ OnDocument(u)
  \/ \E u \in Users : nextMsg <= MaxMixed /\ OnAudio(u)
  \/ \E t \in timers : TimerFire(t)
  \/ Resume

Spec == Init /\ [][Next]_vars

\* one sender sends photos: single ones and photos of an album
NextPhoto ==
  \/ \E g \in {"g1", NoGroup} : nextMsg <= MaxMixed /\ OnPhoto("u1", g)
  \/ \E t \in timers : TimerFire(t)
  \/ Resume

SpecPhoto == Init /\ [][NextPhoto]_vars

\* the same sender in a longer run
NextAlbum ==
  \/ \E g \in {"g1", NoGroup} : nextMsg <= MaxEvents /\ OnPhoto("u1", g)
  \/ \E t \in timers : TimerFire(t)
  \/ Resume

SpecAlbum == Init /\ [][NextAlbum]_vars

\* the sender changes its target while it sends photos
NextTarget ==
  \/ \E g \in {"g1", NoGroup} : nextMsg <= MaxMixed /\ OnPhoto("u1", g)
  \/ \E t \in Targets : OnSetTarget("u1", t)
  \/ \E t \in timers : TimerFire(t)
  \/ Resume

SpecTarget == Init /\ [][NextTarget]_vars

\* the steps of the event loop when the transport accepts every send
Pace ==
  \/ \E tk \in tasks : DelayWake(tk)
  \/ \E tk \in tasks : SendOk(tk)
  \/ Advance

\* two senders send single photos and every send succeeds
NextPair ==
  \/ \E u \in {"u1", "u2"} : nextMsg <= MaxEvents /\ OnPhoto(u, NoGroup)
  \/ Pace

SpecPair == Init /\ [][NextPair]_vars

\* a sender sets its target and sends single photos while the connection to
\* MongoDB is being established
NextDirectory ==
  \/ nextMsg <= MaxEvents /\ OnPhoto("u1", NoGroup)
  \/ \E t \in Targets : OnSetTarget("u1", t)
  \/ ConnectMongoResolves
  \/ Pace

SpecDirectory == Init /\ [][NextDirectory]_vars

\* a sender with a target and a user without one send photos, single and
\* in albums, and documents; every send succeeds
NextGuest ==
  \/ \E u \in {"u1", "u3"}, g \in {"g1", "g3", NoGroup} :
       nextMsg <= MaxMixed /\ OnPhoto(u, g)
  \/ \E u \in {"u1", "u3"} : nextMsg <= MaxMixed /\ OnDocument(u)
  \/ \E t \in timers : TimerFire(t)
  \/ Pace

SpecGuest == Init /\ [][NextGuest]_vars

\* two senders send albums, one of photos and one of videos; every send
\* succeeds
NextKeys ==
  \/ nextMsg <= MaxMixed /\ OnPhoto("u1", "g1")
  \/ nextMsg <= MaxMixed /\ OnVideo("u2", "g2")
  \/ \E t \in timers : TimerFire(t)
  \/ \E tk \in tasks : SendOk(tk)
  \/ Advance

SpecKeys == Init /\ [][NextKeys]_vars

\* the event loop resumes the power commands in progress; every message
\* is delivered
Broadcast ==
  \/ \E c \in commands : PowerReplyOk(c)
  \/ \E c \in commands : NotifyOk(c)

\* one sender sends photos while the admin switches the bot off and on;
\* every send succeeds
NextPower ==
  \/ \E g \in {"g1", NoGroup} : nextMsg <= MaxMixed /\ OnPhoto("u1", g)
  \/ nextMsg <= MaxMixed /\ OnPowerOff(ADMIN_ID)
  \/ nextMsg <= MaxMixed /\ OnPowerOn(ADMIN_ID)
  \/ \E t \in timers : TimerFire(t)
  \/ Pace
  \/ Broadcast

SpecPower == Init /\ [][NextPower]_vars

\* users send power commands, the super admin promotes a user, the
\* connection to MongoDB is established, replies and broadcasts may fail
NextAdmin ==
  \/ \E u \in Users : nextMsg <= MaxEvents /\ OnPowerOff(u)
  \/ \E u \in Users : nextMsg <= MaxEvents /\ OnPowerOn(u)
  \/ \E u \in {"u1", "u3"} : nextMsg <= MaxEvents /\ OnPromote(u, "u2")
  \/ ConnectMongoResolves
  \/ Broadcast
  \/ \E c \in commands : PowerReplyFail(c)
  \/ \E c \in commands : NotifyFail(c)

SpecAdmin == Init /\ [][NextAdmin]_vars

\* the super admin switches the bot off and on; every message is delivered
NextBroadcast ==
  \/ nextMsg <= MaxEvents /\ OnPowerOff(ADMIN_ID)
  \/ nextMsg <= MaxEvents /\ OnPowerOn(ADMIN_ID)
  \/ Broadcast

SpecBroadcast == Init /\ [][NextBroadcast]_vars

\* two users choose targets, their own id among them, by command and by
\* button, while the connection to MongoDB is being established; getChat
\* and the answers may fail
NextChoose ==
  \/ \E u \in {"u1", "u2"}, t \in {"u1", "t2"} :
       nextMsg <= MaxMixed /\ OnSetTargetCommand(u, t)
  \/ \E u \in {"u1", "u2"}, t \in {"u1", "t2"} :
       nextMsg <= MaxMixed /\ OnChangeTargetCommand(u, t)
  \/ \E u \in {"u1", "u2"}, t \in {"u1", "t2"} :
       nextMsg <= MaxMixed /\ OnTargetButton(u, t)
  \/ ConnectMongoResolves
  \/ \E c \in commands : GetChatOk(c)
  \/ \E c \in commands : GetChatFail(c)
  \/ \E c \in commands : AnswerOk(c)
  \/ \E c \in commands : AnswerFail(c)

SpecChoose == Init /\ [][NextChoose]_vars

\* one sender sends documents and audio files; every send succeeds
NextQueue ==
  \/ nextMsg <= MaxEvents /\ OnDocument("u1")
  \/ nextMsg <= MaxEvents /\ OnAudio("u1")
  \/ Pace

SpecQueue == Init /\ [][NextQueue]_vars

(* ---------------------------------------------------------------------- *)
(* Vocabulary of the properties                                            *)
(* ---------------------------------------------------------------------- *)

IsGroupCall(c) == c.op = "sendMediaGroup"
Failed(c) == c.outcome \notin {"pending", "ok"}

\* the external call made by invocation id, if it has made one
CallsBy(id) == {i \in DOMAIN calls : calls[i].by = id}

\* number of ctx.reply calls invocation id has made
ReplyCount(id) == IF MapHas(replies, id) THEN Len(replies[id]) ELSE 0

\* the arrival that created the PendingGroup of key that was live after the
\* first n grouped arrivals (0 when there was none)
RECURSIVE Born(_, _)
Born(key, n) ==
  IF n = 0 THEN 0
  ELSE IF pushed[n].key = key /\ pushed[n].first THEN n
  ELSE Born(key, n - 1)

\* the media ids that arrived for key, in arrival order, among the grouped
\* arrivals from..to
RECURSIVE Arrived(_, _, _)
Arrived(key, from, to) ==
  IF from > to \/ from = 0 THEN <<>>
  ELSE (IF pushed[from].key = key THEN <<pushed[from].id>> ELSE <<>>)
       \o Arrived(key, from + 1, to)

MediaOf(items) == [i \in DOMAIN items |-> items[i].media]

(* ---------------------------------------------------------------------- *)
(* C1                                                                      *)
(* ---------------------------------------------------------------------- *)

\* C1: whenever an external send call is initiated for a sender, at least
\* SEND_DELAY_MS have passed since the previous external send call of that
\* sender was initiated.
C1_SendsSpaced ==
  [][\A i \in (DOMAIN calls') \ (DOMAIN calls) :
       MapHas(lastCallAt, calls'[i].userId)
         => now - lastCallAt[calls'[i].userId] >= SEND_DELAY_MS]_vars

(* ---------------------------------------------------------------------- *)
(* C2                                                                      *)
(* ---------------------------------------------------------------------- *)

\* C2: no two external sendMediaGroup calls are made for the same
\* PendingGroup, that is for the same key and the same creating arrival.
C2_OneSendPerGroup ==
  \A i, j \in DOMAIN calls :
    (i < j /\ IsGroupCall(calls[i]) /\ IsGroupCall(calls[j])
     /\ calls[i].groupId = calls[j].groupId)
      => Born(calls[i].groupId, calls[i].seen)
           # Born(calls[j].groupId, calls[j].seen)

(* ---------------------------------------------------------------------- *)
(* C3                                                                      *)
(* ---------------------------------------------------------------------- *)

\* C3: a grouped item that arrived for a key while a flush of that key was
\* in progress is never discarded without being sent: it is still buffered
\* under its key or it was carried by an external sendMediaGroup call.
C3_LateItemNotLost ==
  \A k \in DOMAIN pushed :
    pushed[k].late =>
      \/ /\ MapHas(mediaGroupBuffer, pushed[k].key)
         /\ \E n \in DOMAIN mediaGroupBuffer[pushed[k].key] :
              mediaGroupBuffer[pushed[k].key][n].id = pushed[k].id
      \/ \E i \in DOMAIN calls :
           /\ IsGroupCall(calls[i])
           /\ \E n \in DOMAIN calls[i].items :
                calls[i].items[n].media = pushed[k].id

(* ---------------------------------------------------------------------- *)
(* C4                                                                      *)
(* ---------------------------------------------------------------------- *)

\* C4: a flush invoked for a key after an earlier flush of that key has
\* ended, with no item arrived for the key since, returns at its first
\* check: it makes no external send and no reply and changes no state.
C4_SecondFlushNoop ==
  \A i \in DOMAIN flushes : flushes[i].afterSettled => ~flushes[i].ran


(* ---------------------------------------------------------------------- *)
(* C5                                                                      *)
(* ---------------------------------------------------------------------- *)

\* C5: the item list of every external sendMediaGroup call is, in arrival
\* order, exactly the items that arrived for the key from the arrival that
\* created the group up to the initiation of the call.
C5_BatchIsArrivals ==
  \A i \in DOMAIN calls :
    IsGroupCall(calls[i]) =>
      MediaOf(calls[i].items)
        = Arrived(calls[i].groupId,
                  Born(calls[i].groupId, calls[i].seen), calls[i].seen)

(* ---------------------------------------------------------------------- *)
(* C6                                                                      *)
(* ---------------------------------------------------------------------- *)

\* C6: when item b arrives for a key less than the quiet period after item
\* a, the timer armed on a's arrival never invokes the flush, and the batch
\* sent by the flush that b's timer invokes contains both a and b.
C6_OnlyLastTimerFires ==
  \A a, b \in DOMAIN pushed :
    (a < b /\ pushed[a].key = pushed[b].key
     /\ pushed[b].at - pushed[a].at < FlushDelay)
      => /\ \A i \in DOMAIN flushes : flushes[i].timer # pushed[a].id
         /\ \A j \in CallsBy(pushed[b].id) :
              {pushed[a].id, pushed[b].id}
                \subseteq {calls[j].items[n].media : n \in DOMAIN calls[j].items}

(* ---------------------------------------------------------------------- *)
(* C7                                                                      *)
(* ---------------------------------------------------------------------- *)

\* C7: at most one flush timer is armed per group key.
C7_OneTimerPerKey ==
  \A g \in GroupKeys : Cardinality({t \in timers : t.groupId = g}) <= 1

(* ---------------------------------------------------------------------- *)
(* C8                                                                      *)
(* ---------------------------------------------------------------------- *)

\* C8: a flush whose external send failed ends by returning, never by an
\* exception, and when it ends its key is in neither the buffer map nor the
\* timer map.
C8_FailedFlushCleans ==
  \A i \in DOMAIN flushes :
    ((\E j \in CallsBy(flushes[i].timer) : Failed(calls[j]))
     /\ flushes[i].end # "none")
      => flushes[i].end = "returned" /\ flushes[i].cleaned

(* ---------------------------------------------------------------------- *)
(* C9                                                                      *)
(* ---------------------------------------------------------------------- *)

\* C9: the invocation of every failed external send, of a single item or of
\* a batch, has made exactly one reply, addressed to the sender; an
\* invocation whose send is pending or succeeded has made none.
C9_OneReplyPerFailure ==
  \A i \in DOMAIN calls :
    IF Failed(calls[i])
    THEN /\ ReplyCount(calls[i].by) = 1
         /\ replies[calls[i].by][1].to = calls[i].userId
    ELSE ReplyCount(calls[i].by) = 0

\* a single send and a batched send have both failed and been answered
C9_Witness ==
  \E i, j \in DOMAIN calls :
    /\ IsGroupCall(calls[i]) /\ Failed(calls[i])
    /\ ~IsGroupCall(calls[j]) /\ Failed(calls[j])
    /\ ReplyCount(calls[i].by) = 1 /\ ReplyCount(calls[j].by) = 1

(* ---------------------------------------------------------------------- *)
(* C10                                                                     *)
(* ---------------------------------------------------------------------- *)

\* C10: the reply to a failed external send is the remediation message
\* exactly when the failure is of the chat-not-found class, and the generic
\* failure message for every other failure.
C10_ReplyMatchesClass ==
  \A i \in DOMAIN calls :
    Failed(calls[i]) =>
      \A n \in 1..ReplyCount(calls[i].by) :
        IF calls[i].outcome = "chat_not_found"
        THEN replies[calls[i].by][n].text = "must_start"
        ELSE replies[calls[i].by][n].text = "generic"

\* a batched send failed with chat-not-found and got the remediation, and a
\* single send failed otherwise and got the generic message
C10_Witness ==
  \E i, j \in DOMAIN calls :
    /\ IsGroupCall(calls[i]) /\ calls[i].outcome = "chat_not_found"
    /\ ReplyCount(calls[i].by) = 1
    /\ replies[calls[i].by][1].text = "must_start"
    /\ ~IsGroupCall(calls[j]) /\ calls[j].outcome = "blocked"
    /\ ReplyCount(calls[j].by) = 1
    /\ replies[calls[j].by][1].text = "generic"

(* ---------------------------------------------------------------------- *)
(* C11                                                                     *)
(* ---------------------------------------------------------------------- *)

\* the messages accepted for a single send: delivered, not buffered in a
\* group and not turned away with the offline or the no-target reply
AcceptedSingles ==
  {id \in 1..(nextMsg - 1) :
     /\ \A k \in DOMAIN pushed : pushed[k].id # id
     /\ ~(MapHas(replies, id) /\ replies[id] # <<>>
          /\ replies[id][1].text \in {"offline", "no_target"})}

\* the invocations that are suspended in applyDelay
Delayed == {tk.id : tk \in {x \in tasks : x.pc = "delay"}}

\* C11: no invocation makes more than one external send call, whether its
\* call fails or succeeds; every accepted single item whose applyDelay has
\* returned has made exactly one call, and so has every flush of a
\* non-empty group whose applyDelay has returned.
C11_OneCallPerInvocation ==
  /\ \A id \in 1..(nextMsg - 1) : Cardinality(CallsBy(id)) <= 1
  /\ \A id \in AcceptedSingles \ Delayed :
       /\ Cardinality(CallsBy(id)) = 1
       /\ \A i \in CallsBy(id) : ~IsGroupCall(calls[i])
  /\ \A i \in DOMAIN flushes :
       (flushes[i].ran /\ flushes[i].timer \notin Delayed)
         => /\ Cardinality(CallsBy(flushes[i].timer)) = 1
            /\ \A j \in CallsBy(flushes[i].timer) : IsGroupCall(calls[j])

\* a single send and a batched send have failed, both invocations have
\* ended, and each has made one call
C11_Witness ==
  \E i, j \in DOMAIN calls :
    /\ IsGroupCall(calls[i]) /\ Failed(calls[i])
    /\ ~IsGroupCall(calls[j]) /\ Failed(calls[j])
    /\ \A tk \in tasks : tk.id \notin {calls[i].by, calls[j].by}
    /\ Cardinality(CallsBy(calls[i].by)) = 1
    /\ Cardinality(CallsBy(calls[j].by)) = 1

(* ---------------------------------------------------------------------- *)
(* C12                                                                     *)
(* ---------------------------------------------------------------------- *)

\* C12: the steps that handle a failed external send (the rejection entering
\* the catch block, and the catch block ending) leave every RateState entry
\* as it is: the sender of the failed call keeps an entry, and it is the
\* timestamp of the sender's latest send initiation.
C12_FailureKeepsTimestamp ==
  [][((\E i \in DOMAIN calls :
          calls[i].outcome = "pending" /\ Failed(calls'[i]))
      \/ (\E tk \in tasks : tk.pc = "reply" /\ tk \notin tasks'))
       => /\ userLastSent' = userLastSent
          /\ \A i \in DOMAIN calls :
               Failed(calls'[i])
                 => /\ MapHas(userLastSent', calls[i].userId)
                    /\ userLastSent'[calls[i].userId]
                         = lastCallAt'[calls[i].userId]]_vars

\* a send of a sender failed, and the sender's next send is suspended until
\* SEND_DELAY_MS after the failed attempt
C12_Witness ==
  \E i \in DOMAIN calls :
    /\ Failed(calls[i])
    /\ \E tk \in tasks :
         /\ tk.userId = calls[i].userId /\ tk.id > calls[i].by
         /\ tk.pc = "delay"
         /\ tk.wake = userLastSent[tk.userId] + SEND_DELAY_MS

(* ---------------------------------------------------------------------- *)
(* C13                                                                     *)
(* ---------------------------------------------------------------------- *)

\* C13: an applyDelay invoked for a sender whose timestamp is T, at T + d:
\* with d < SEND_DELAY_MS it suspends, for at least SEND_DELAY_MS - d, and
\* does not return (the send is not initiated) before T + SEND_DELAY_MS;
\* with d >= SEND_DELAY_MS it does not suspend and the send is initiated in
\* the same step.
C13_WaitsOutTheInterval ==
  [][/\ \A tk \in tasks' :
          ((\A x \in tasks : x.id # tk.id) /\ MapHas(userLastSent, tk.userId))
            => IF now - userLastSent[tk.userId] < SEND_DELAY_MS
               THEN /\ tk.pc = "delay"
                    /\ tk.wake - now
                         >= SEND_DELAY_MS - (now - userLastSent[tk.userId])
                    /\ \A i \in DOMAIN calls' : calls'[i].by # tk.id
               ELSE /\ tk.pc = "send" /\ tk.wake = 0
                    /\ \E i \in (DOMAIN calls') \ (DOMAIN calls) :
                         calls'[i].by = tk.id
     /\ \A tk \in tasks :
          (tk.pc = "delay"
           /\ \E i \in (DOMAIN calls') \ (DOMAIN calls) : calls'[i].by = tk.id)
            => now' >= tk.wake]_vars

\* an applyDelay that suspended has returned, no earlier than the end of its
\* wait, and its send is in flight
C13_Witness ==
  \E tk \in tasks :
    /\ tk.pc = "send" /\ tk.wake > 0
    /\ lastCallAt[tk.userId] >= tk.wake
    /\ \E i \in CallsBy(tk.id) : calls[i].outcome = "pending"

(* ---------------------------------------------------------------------- *)
(* C14                                                                     *)
(* ---------------------------------------------------------------------- *)

\* C14: an applyDelay invoked for a sender that has no RateState entry does
\* not suspend (the send is initiated in the same step, at the same time)
\* and leaves an entry for the sender equal to the current time.
C14_FirstSendImmediate ==
  [][\A tk \in tasks' :
       ((\A x \in tasks : x.id # tk.id) /\ ~MapHas(userLastSent, tk.userId))
         => /\ tk.pc = "send" /\ tk.wake = 0
            /\ now' = now
            /\ MapHas(userLastSent', tk.userId)
            /\ userLastSent'[tk.userId] = now
            /\ \E i \in (DOMAIN calls') \ (DOMAIN calls) :
                 calls'[i].by = tk.id]_vars

\* the first send of a sender was initiated without a wait and the sender's
\* entry is the current time
C14_Witness ==
  \E i \in DOMAIN calls :
    /\ \A j \in 1..(i - 1) : calls[j].userId # calls[i].userId
    /\ \E tk \in tasks : tk.id = calls[i].by /\ tk.pc = "send" /\ tk.wake = 0
    /\ userLastSent[calls[i].userId] = now
    /\ Cardinality({j \in DOMAIN calls : calls[j].userId = calls[i].userId}) = 1

(* ---------------------------------------------------------------------- *)
(* C15                                                                     *)
(* ---------------------------------------------------------------------- *)

\* C15: the RateState entry of a sender is written exactly in the steps in
\* which an applyDelay for that sender returns and its send is initiated,
\* suspended before or not, and the value written is the time of that step;
\* the step in which an applyDelay suspends writes nothing.
C15_WritesReturnTime ==
  [][/\ \A i \in (DOMAIN calls') \ (DOMAIN calls) :
          /\ MapHas(userLastSent', calls'[i].userId)
          /\ userLastSent'[calls'[i].userId] = now'
     /\ \A u \in Users :
          (MapHas(userLastSent', u)
           /\ (~MapHas(userLastSent, u) \/ userLastSent'[u] # userLastSent[u]))
            => \E i \in (DOMAIN calls') \ (DOMAIN calls) : calls'[i].userId = u
     /\ \A tk \in tasks' :
          ((\A x \in tasks : x.id # tk.id) /\ tk.pc = "delay")
            => userLastSent' = userLastSent]_vars

\* an applyDelay that suspended has returned later than its wait was due to
\* end, and the entry is the time of its return
C15_Witness ==
  \E tk \in tasks :
    /\ tk.pc = "send" /\ tk.wake > 0
    /\ now > tk.wake
    /\ userLastSent[tk.userId] = now

(* ---------------------------------------------------------------------- *)
(* C16                                                                     *)
(* ---------------------------------------------------------------------- *)

\* C16: no step removes a sender's RateState entry or lowers its timestamp.
C16_TimestampMonotonic ==
  [][\A u \in DOMAIN userLastSent :
       /\ MapHas(userLastSent', u)
       /\ userLastSent'[u] >= userLastSent[u]]_vars

\* two applyDelay calls of one sender overlap: one is suspended while a send
\* of a later message of the sender has been initiated
C16_Witness ==
  \E tk \in tasks :
    /\ tk.pc = "delay"
    /\ \E i \in DOMAIN calls :
         /\ calls[i].userId = tk.userId /\ calls[i].by > tk.id
         /\ userLastSent[tk.userId] > tk.wake - SEND_DELAY_MS

(* ---------------------------------------------------------------------- *)
(* C17                                                                     *)
(* ---------------------------------------------------------------------- *)

\* C17: the step in which a send of sender A is initiated changes no other
\* sender's RateState entry, and whether and how long an applyDelay for a
\* sender suspends is decided by that sender's own entry alone, whatever
\* other senders have suspended.
C17_SendersIndependent ==
  [][/\ \A i \in (DOMAIN calls') \ (DOMAIN calls) :
          \A v \in Users \ {calls'[i].userId} :
            /\ MapHas(userLastSent', v) <=> MapHas(userLastSent, v)
            /\ MapHas(userLastSent, v) => userLastSent'[v] = userLastSent[v]
     /\ \A tk \in tasks' :
          (\A x \in tasks : x.id # tk.id)
            => IF MapHas(userLastSent, tk.userId)
                  /\ now - userLastSent[tk.userId] < SEND_DELAY_MS
               THEN /\ tk.pc = "delay"
                    /\ tk.wake = userLastSent[tk.userId] + SEND_DELAY_MS
               ELSE /\ tk.pc = "send"
                    /\ \E i \in (DOMAIN calls') \ (DOMAIN calls) :
                         calls'[i].by = tk.id /\ calls'[i].userId = tk.userId
    ]_vars

\* while an applyDelay of one sender is suspended, a message of another
\* sender that arrived later has been sent without a wait
C17_Witness ==
  \E tk \in tasks :
    /\ tk.pc = "delay"
    /\ \E other \in tasks :
         /\ other.userId # tk.userId /\ other.id > tk.id
         /\ other.pc = "send" /\ other.wake = 0
         /\ now < tk.wake

(* ---------------------------------------------------------------------- *)
(* C18                                                                     *)
(* ---------------------------------------------------------------------- *)

\* C18: a flush that finds a non-empty group takes one item per buffered
\* message, in buffer order, for the sender of those messages; it keeps that
\* list while applyDelay is suspended, it is never suspended a second time,
\* and the step in which its applyDelay returns (the sender's entry is
\* written) initiates its only external call, a sendMediaGroup carrying
\* that list.
C18_OneDelayOneBatch ==
  [][/\ \A tk \in tasks' :
          ((\A x \in tasks : x.id # tk.id) /\ tk.kind = "flush")
            => /\ MapHas(mediaGroupBuffer, tk.groupId)
               /\ Len(tk.items) = Len(mediaGroupBuffer[tk.groupId])
               /\ Len(tk.items) > 0
               /\ \A n \in DOMAIN tk.items :
                    /\ tk.items[n].media = mediaGroupBuffer[tk.groupId][n].id
                    /\ tk.items[n].type = mediaGroupBuffer[tk.groupId][n].kind
                    /\ mediaGroupBuffer[tk.groupId][n].from = tk.userId
     /\ \A tk \in tasks :
          tk.kind = "flush"
            => \A x \in tasks' :
                 x.id = tk.id
                   => /\ x.items = tk.items
                      /\ tk.pc # "delay" => x.pc # "delay"
     /\ \A i \in (DOMAIN calls') \ (DOMAIN calls) :
          IsGroupCall(calls'[i])
            => /\ \E tk \in tasks' :
                    /\ tk.id = calls'[i].by /\ tk.kind = "flush"
                    /\ tk.pc = "send"
                    /\ calls'[i].items = tk.items
                    /\ calls'[i].userId = tk.userId
               /\ userLastSent'[calls'[i].userId] = now'
               /\ \A j \in DOMAIN calls : calls[j].by # calls'[i].by
     /\ \A tk \in tasks :
          (tk.kind = "flush" /\ tk.pc = "delay"
           /\ userLastSent'[tk.userId] # userLastSent[tk.userId])
            => \E i \in (DOMAIN calls') \ (DOMAIN calls) :
                 calls'[i].userId = tk.userId]_vars

\* a flush of a group of two items has initiated its call, with both items
\* and one timestamp written for the sender
C18_Witness ==
  \E i \in DOMAIN calls :
    /\ IsGroupCall(calls[i])
    /\ Len(calls[i].items) = 2
    /\ Cardinality(CallsBy(calls[i].by)) = 1
    /\ Cardinality({j \in DOMAIN calls : calls[j].userId = calls[i].userId}) = 1
    /\ MapHas(userLastSent, calls[i].userId)

(* ---------------------------------------------------------------------- *)
(* C19                                                                     *)
(* ---------------------------------------------------------------------- *)

\* C19: every external sendMediaGroup call goes to the recipient that was
\* resolved when the first item of its group arrived, and is made for the
\* sender of the group.
C19_BoundToFirstItem ==
  \A i \in DOMAIN calls :
    (IsGroupCall(calls[i]) /\ Born(calls[i].groupId, calls[i].seen) # 0)
      => /\ calls[i].target
              = pushed[Born(calls[i].groupId, calls[i].seen)].target
         /\ calls[i].userId = KeyOwner[calls[i].groupId]

(* ---------------------------------------------------------------------- *)
(* C20                                                                     *)
(* ---------------------------------------------------------------------- *)

\* the latest of the first n grouped arrivals that was for key (0 when there
\* is none)
RECURSIVE LastArrival(_, _)
LastArrival(key, n) ==
  IF n = 0 THEN 0
  ELSE IF pushed[n].key = key THEN n
  ELSE LastArrival(key, n - 1)

\* C20: every flush that finds a non-empty buffer starts at least
\* max(SEND_DELAY_MS + 1000, 4000) ms after the arrival of the most recent
\* item of that buffer.
C20_FlushAfterQuietPeriod ==
  \A i \in DOMAIN flushes :
    (flushes[i].ran /\ LastArrival(flushes[i].key, flushes[i].seen) # 0)
      => flushes[i].at
           - pushed[LastArrival(flushes[i].key, flushes[i].seen)].at
             >= FlushDelay

(* ---------------------------------------------------------------------- *)
(* C21                                                                     *)
(* ---------------------------------------------------------------------- *)

\* C21: from the moment the timer of a key has fired and its flush is in
\* progress until the flush has ended, no item is appended to the buffer of
\* that key and no timer is armed for it.
C21_NoAppendWhileFlushing ==
  /\ \A k \in DOMAIN pushed : ~pushed[k].late
  /\ \A tk \in tasks :
       tk.kind = "flush" => \A t \in timers : t.groupId # tk.groupId

(* ---------------------------------------------------------------------- *)
(* C22                                                                     *)
(* ---------------------------------------------------------------------- *)

\* C22: a key that nothing is left to destroy (no timer is armed for it and
\* no flush of it is in progress) is absent from the buffer map and from
\* the timer map; otherwise it would stay in them for as long as no new
\* item arrives.
C22_IdleKeyAbsent ==
  \A g \in GroupKeys :
    ((\A t \in timers : t.groupId # g)
     /\ (\A tk \in tasks : tk.kind = "flush" => tk.groupId # g))
      => ~MapHas(mediaGroupBuffer, g) /\ ~MapHas(groupTimeouts, g)

(* ---------------------------------------------------------------------- *)
(* C23                                                                     *)
(* ---------------------------------------------------------------------- *)

\* C23: findTarget(u) returns the target of the last setTarget(u, t), for
\* every user that has set a target.
C23_StoredTargetFound ==
  \A u \in DOMAIN stored : findTarget(u) = stored[u]

(* ---------------------------------------------------------------------- *)
(* C24                                                                     *)
(* ---------------------------------------------------------------------- *)

\* the messages answered with the no-target reply
Unserved ==
  {id \in DOMAIN replies :
     replies[id] # <<>> /\ replies[id][1].text = "no_target"}

\* C24: every external send, every invocation that has reached applyDelay,
\* every buffered item and every armed timer has a resolved recipient; a
\* message answered with the no-target reply has made no send, is in no
\* buffer, has armed no timer and runs no invocation; and a sender has a
\* RateState entry only if a send was initiated for it.
C24_NoTargetNoEffect ==
  /\ \A i \in DOMAIN calls : calls[i].target # NoTarget
  /\ \A tk \in tasks : tk.target # NoTarget
  /\ \A t \in timers : t.target # NoTarget
  /\ \A k \in DOMAIN pushed : pushed[k].target # NoTarget
  /\ \A id \in Unserved :
       /\ CallsBy(id) = {}
       /\ \A tk \in tasks : tk.id # id
       /\ \A t \in timers : t.id # id
       /\ \A k \in DOMAIN pushed : pushed[k].id # id
       /\ \A g \in DOMAIN mediaGroupBuffer :
            \A n \in DOMAIN mediaGroupBuffer[g] : mediaGroupBuffer[g][n].id # id
  /\ \A u \in DOMAIN userLastSent :
       \E i \in DOMAIN calls : calls[i].userId = u

\* a message of a user without a target was turned away while a message of
\* a sender with a target was forwarded
C24_Witness ==
  /\ Unserved # {}
  /\ \E i \in DOMAIN calls : calls[i].by \notin Unserved
  /\ \A u \in DOMAIN userLastSent : findTarget(u) # NoTarget

(* ---------------------------------------------------------------------- *)
(* C25                                                                     *)
(* ---------------------------------------------------------------------- *)

\* C25: with SEND_DELAY_MS left unconfigured, the interval applyDelay
\* enforces is 500 ms: an applyDelay invoked 500 ms or more after the
\* sender's timestamp does not suspend, and one that suspends waits until
\* 500 ms after that timestamp.
C25_DefaultIntervalIs500 ==
  [][\A tk \in tasks' :
       ((\A x \in tasks : x.id # tk.id) /\ MapHas(userLastSent, tk.userId))
         => /\ now - userLastSent[tk.userId] >= README_DELAY_MS
                 => tk.pc = "send"
            /\ tk.pc = "delay"
                 => tk.wake = userLastSent[tk.userId] + README_DELAY_MS]_vars

(* ---------------------------------------------------------------------- *)
(* C26                                                                     *)
(* ---------------------------------------------------------------------- *)

\* C26: the step in which a grouped item arrives appends the item to the
\* buffer of its key and leaves one newly armed timer as the timer of that
\* key; it changes no RateState entry, initiates no external send, starts
\* no invocation and leaves the buffer, the timer handle and the armed
\* timers of every other key as they are.
C26_GroupedArrivalFrame ==
  [][Len(pushed') = Len(pushed) + 1
       => LET r == pushed'[Len(pushed')]
              g == r.key
              old == IF MapHas(mediaGroupBuffer, g)
                     THEN mediaGroupBuffer[g] ELSE <<>>
          IN /\ userLastSent' = userLastSent
             /\ calls' = calls
             /\ tasks' = tasks
             /\ MapHas(mediaGroupBuffer', g)
             /\ Len(mediaGroupBuffer'[g]) = Len(old) + 1
             /\ SubSeq(mediaGroupBuffer'[g], 1, Len(old)) = old
             /\ mediaGroupBuffer'[g][Len(old) + 1].id = r.id
             /\ MapHas(groupTimeouts', g) /\ groupTimeouts'[g] = r.id
             /\ \E t \in timers' :
                  /\ t.id = r.id /\ t.groupId = g
                  /\ t.deadline = now + FlushDelay
                  /\ t \notin timers
             /\ \A h \in GroupKeys \ {g} :
                  /\ MapHas(mediaGroupBuffer', h) <=> MapHas(mediaGroupBuffer, h)
                  /\ MapHas(mediaGroupBuffer, h)
                       => mediaGroupBuffer'[h] = mediaGroupBuffer[h]
                  /\ MapHas(groupTimeouts', h) <=> MapHas(groupTimeouts, h)
                  /\ MapHas(groupTimeouts, h)
                       => groupTimeouts'[h] = groupTimeouts[h]
                  /\ {t \in timers' : t.groupId = h}
                       = {t \in timers : t.groupId = h}]_vars

\* an item has arrived for a key while the timer of another key was armed,
\* and both timers are armed
C26_Witness ==
  \E a, b \in DOMAIN pushed :
    /\ a < b /\ pushed[a].key # pushed[b].key
    /\ \E t \in timers : t.id = pushed[a].id
    /\ \E t \in timers : t.id = pushed[b].id
    /\ calls = <<>> /\ userLastSent = EmptyMap

(* ---------------------------------------------------------------------- *)
(* C27                                                                     *)
(* ---------------------------------------------------------------------- *)

\* C27: the applyDelay a flush performs for its batch never suspends: no
\* flush is ever waiting in applyDelay.
C27_FlushNeverWaits ==
  \A tk \in tasks : tk.kind = "flush" => tk.pc # "delay"

(* ---------------------------------------------------------------------- *)
(* C28                                                                     *)
(* ---------------------------------------------------------------------- *)

\* C28: applyDelay never raises and never waits longer than SEND_DELAY_MS:
\* an invocation that suspends in applyDelay has set a wait of more than 0
\* and at most SEND_DELAY_MS ms, and an invocation suspended in applyDelay
\* leaves it only by returning, that is by recording the current time for
\* its sender and initiating its send.
C28_DelayBoundedAndReturns ==
  [][/\ \A tk \in tasks' :
          ((\A x \in tasks : x.id # tk.id) /\ tk.pc = "delay")
            => /\ tk.wake - now > 0
               /\ tk.wake - now <= SEND_DELAY_MS
     /\ \A tk \in tasks :
          tk.pc = "delay"
            => \/ tk \in tasks'
               \/ /\ [tk EXCEPT !.pc = "send"] \in tasks'
                  /\ now >= tk.wake
                  /\ MapHas(userLastSent', tk.userId)
                  /\ userLastSent'[tk.userId] = now
                  /\ Len(calls') = Len(calls) + 1
                  /\ calls'[Len(calls')].by = tk.id]_vars

\* a flush has waited in applyDelay behind a single send of its sender and
\* has gone on to its batched send
C28_Witness ==
  \E a \in tasks :
    /\ a.kind = "flush" /\ a.wake > 0 /\ a.pc = "send"
    /\ \E i \in CallsBy(a.id) : IsGroupCall(calls[i])
    /\ \E j \in DOMAIN calls : ~IsGroupCall(calls[j]) /\ calls[j].userId = a.userId

(* ---------------------------------------------------------------------- *)
(* C29                                                                     *)
(* ---------------------------------------------------------------------- *)

\* the error a failed call was rejected with
ErrorOf(c) == CHOOSE e \in Errors : e.class = c.outcome

\* the best detail an error carries: its description, else its message,
\* else the placeholder
BestDetail(e) ==
  IF e.hasDescription /\ e.description # <<>> THEN e.description
  ELSE IF e.message # <<>> THEN e.message
  ELSE <<"Unknown", "error">>

\* C29: the generic failure reply to a send that failed for another reason
\* than chat-not-found carries the detail the transport supplied, the
\* description or else the message; the placeholder "Unknown error" appears
\* only when the error carries neither.
C29_GenericCarriesDetail ==
  \A i \in DOMAIN calls :
    (Failed(calls[i]) /\ calls[i].outcome # "chat_not_found") =>
      \A n \in 1..ReplyCount(calls[i].by) :
        replies[calls[i].by][n].text = "generic"
          => replies[calls[i].by][n].detail = BestDetail(ErrorOf(calls[i]))

(* ---------------------------------------------------------------------- *)
(* C30                                                                     *)
(* ---------------------------------------------------------------------- *)

\* C30: no step taken while the bot is disabled initiates an external media
\* send, be it for a new item, for a buffered group or for an invocation
\* that was waiting in applyDelay when the bot was switched off.
C30_DisabledNoSend ==
  [][~botEnabled => Len(calls') = Len(calls)]_vars

(* ---------------------------------------------------------------------- *)
(* C31                                                                     *)
(* ---------------------------------------------------------------------- *)

\* C31: the single sends of a sender are initiated in the order in which
\* their items arrived (message ids are given in arrival order).
C31_SinglesInArrivalOrder ==
  \A i, j \in DOMAIN calls :
    (/\ i < j
     /\ ~IsGroupCall(calls[i]) /\ ~IsGroupCall(calls[j])
     /\ calls[i].userId = calls[j].userId)
      => calls[i].by < calls[j].by

(* ---------------------------------------------------------------------- *)
(* C32                                                                     *)
(* ---------------------------------------------------------------------- *)

\* the users that may switch the bot: ADMIN_ID and the users whose isAdmin
\* flag is set
IsAdminUser(u) == u = ADMIN_ID \/ u \in admins

\* the messages handled in this step and who sent them
C32_Handled == (DOMAIN replies') \ (DOMAIN replies)

\* C32: a step changes botEnabled only by handling a power command of
\* ADMIN_ID or of a user whose isAdmin flag is set, and botEnabled then has
\* the value the command asks for; a step that handles a message of any
\* other user leaves botEnabled as it is and starts no broadcast; every
\* broadcast in progress belongs to the command of such an admin.
C32_OnlyAdminsSwitch ==
  [][/\ botEnabled' # botEnabled
          => \E c \in commands' \ commands :
               /\ c.kind = "power" /\ c.id \in C32_Handled
               /\ IsAdminUser(c.userId)
               /\ botEnabled' = (c.arg = "ONLINE")
     /\ \A id \in C32_Handled :
          ~IsAdminUser(replies'[id][1].to)
            => /\ botEnabled' = botEnabled
               /\ commands' = commands
               /\ delivered' = delivered
     /\ \A c \in commands' : c.kind = "power" => IsAdminUser(c.userId)]_vars

\* a promoted user has switched the bot off, and a power command of a user
\* who is no admin was turned away
C32_Witness ==
  /\ ~botEnabled
  /\ \E c \in commands :
       c.kind = "power" /\ c.userId # ADMIN_ID /\ c.arg = "OFFLINE"
  /\ \E id \in DOMAIN replies :
       /\ ~IsAdminUser(replies[id][1].to)
       /\ replies[id][1].text = "unauthorized"

(* ---------------------------------------------------------------------- *)
(* C33                                                                     *)
(* ---------------------------------------------------------------------- *)

\* the status message that matches botEnabled
StatusNow == IF botEnabled THEN "ONLINE" ELSE "OFFLINE"

\* C33: whenever no power command is in progress, the last status broadcast
\* each user has received matches botEnabled.
C33_LastBroadcastMatches ==
  commands = {} => \A u \in DOMAIN delivered : delivered[u] = StatusNow

(* ---------------------------------------------------------------------- *)
(* C34                                                                     *)
(* ---------------------------------------------------------------------- *)

\* C34: no user is its own target before or after any step, and a step
\* that answers a request for one's own id leaves the stored targets as
\* they are.
C34_NeverOwnTarget ==
  [][/\ \A u \in Users \cup Targets :
          findTarget(u) # u /\ (findTarget(u))' # u
     /\ \A id \in (DOMAIN replies') \ (DOMAIN replies) :
          replies'[id][1].text = "self"
            => data' = data /\ userModel' = userModel]_vars

\* a user has asked for its own id and was turned away, and a user has
\* changed its target to another user
C34_Witness ==
  /\ \E id \in DOMAIN replies : replies[id][1].text = "self"
  /\ \E u \in {"u1", "u2"} :
       /\ findTarget(u) \in {"u1", "u2", "t1", "t2"} \ {DEFAULT_DATA[u]}
       /\ \E id \in DOMAIN replies :
            replies[id][1].to = u /\ replies[id][1].text = "success"

(* ---------------------------------------------------------------------- *)
(* C35                                                                     *)
(* ---------------------------------------------------------------------- *)

\* the command c makes an answer with this text in this step
C35_Answers(c, text) ==
  /\ MapHas(replies', c.id)
  /\ Len(replies'[c.id])
       > (IF MapHas(replies, c.id) THEN Len(replies[c.id]) ELSE 0)
  /\ replies'[c.id][Len(replies'[c.id])].text = text

\* C35: a /set_target or /change_target command that answers with the
\* 'Could not find user' reply has not changed the sender's target (it has
\* not called setTarget, or only with the target the sender already had),
\* and the step in which such a command calls setTarget answers with the
\* success reply.
C35_FailureReplyNoChange ==
  [][\A c \in commands :
       c.kind \in {"set_target", "change_target"}
         => /\ C35_Answers(c, "not_found")
                 => c.pc = "getChat" \/ c.arg = c.before
            /\ (c.pc = "getChat" /\ [c EXCEPT !.pc = "answer"] \in commands')
                 => C35_Answers(c, "success")]_vars

====
